---- MODULE Spec2Model ----
(***************************************************************************)
(* A model of the congestion simulator:                                    *)
(*   - CarlaEnv (src/carla/environment.py): the world-state store and the  *)
(*     per-tick traffic analytics (congestion counters, travel-time        *)
(*     accounting, destination-reached detection);                         *)
(*   - Node (src/simulation/node.py): the per-agent tick loop that reads   *)
(*     data, reduces the raw detections and publishes a summary.           *)
(*                                                                         *)
(* Units.  Coordinates of the simulator are floats; the model keeps every  *)
(* coordinate as an integer number of HALF length-units (x = 61 stands for *)
(* 30.5), which is exact in binary floating point and lets round() meet    *)
(* its tie case.  Velocity components are integers in m/s whose planar     *)
(* magnitude is an integer; speeds in km/h are kept in tenths (180 stands  *)
(* for 18.0 km/h).  An average is an exact fraction [num, den] in km/h,    *)
(* with den = 0 standing for float('inf').                                 *)
(***************************************************************************)
EXTENDS Integers, Sequences, FiniteSets, TLC

VARIABLES
    \* ---- CarlaEnv fields (environment.py:16-29) ----
    vehicle_list,            \* sequence of vehicle actors [location, velocity, traffic_light]
    intersections,           \* sequence of intersection locations
    travelled_frames,        \* dict: vehicle number k ('vehicle_k') -> frames
    destination_indices,     \* dict: vehicle number -> index into spawn_points
    reached_destination,     \* dict: vehicle number -> BOOLEAN
    congestion_statistics,   \* dict: intersection number k ('intersection_k') -> frames
    \* ---- the simulation of the nodes (node.py) ----
    now,                     \* env.now, the clock of the discrete-event environment
    wake,                    \* per node: the time at which its run() generator resumes
    frame,                   \* per node: the locals of run() (state, image, raw_output, output)
    data_pipe,               \* dict: node id -> OutputSummary (the latest-summary map)
    yolo_images,             \* result_storage_pipe['yolo_images'] (the detection log)
    stopped,                 \* the nodes whose run() generator has ended with an exception
    crashed,                 \* the run of the environment has ended with that exception
    \* ---- the actors CarlaEnv tracks besides the vehicles, and their teardown ----
    sensor_list,             \* sequence of camera actors
    ai_controller_list,      \* sequence of walker controller actors
    pedestrian_list,         \* sequence of pedestrian actors
    destroyed,               \* the actors the simulator has released
    refused,                 \* the actors whose destroy() failed in the latest clear_actors
    teardown,                \* the latest clear_actors: "idle" (none), "returned" or "raised"
    \* ---- the simulator ----
    settings                 \* world.get_settings(): synchronous_mode, fixed_delta_seconds

envVars  == <<vehicle_list, intersections, travelled_frames, destination_indices,
              reached_destination, congestion_statistics>>
nodeVars == <<now, wake, frame, data_pipe, yolo_images, stopped, crashed>>
actorVars == <<sensor_list, ai_controller_list, pedestrian_list, destroyed, refused,
               teardown, settings>>
vars     == <<vehicle_list, intersections, travelled_frames, destination_indices,
              reached_destination, congestion_statistics,
              now, wake, frame, data_pipe, yolo_images, stopped, crashed,
              sensor_list, ai_controller_list, pedestrian_list, destroyed, refused,
              teardown, settings>>

-----------------------------------------------------------------------------
(* Bounds of the model *)

MaxVehicles == 2
MaxIntersections == 2
MaxFrames == 2
MaxTick == 1
MaxSensors == 1
MaxPedestrians == 1
MaxCoord == 22

-----------------------------------------------------------------------------
(* Helpers for Python values *)

\* d[k] = v on a dict
DictSet(d, k, v) == [x \in (DOMAIN d) \cup {k} |-> IF x = k THEN v ELSE d[x]]

EmptyDict == [x \in {} |-> 0]

Abs(a) == IF a < 0 THEN -a ELSE a

\* Python round() on a float that is a multiple of 0.5, given in half-units:
\* round-half-to-even.  The result is in whole units.
Round(c) ==
    LET f == c \div 2
    IN  IF c % 2 = 0 THEN f
        ELSE IF f % 2 = 0 THEN f ELSE f + 1

Loc(x, y, z) == [x |-> x, y |-> y, z |-> z]

\* carla.Location.distance: Euclidean distance in 3D; the model has its square,
\* in half-units squared.
DistanceSq(a, b) ==
    (a.x - b.x) * (a.x - b.x) + (a.y - b.y) * (a.y - b.y) + (a.z - b.z) * (a.z - b.z)

\* math.hypot on integer components with an integer magnitude
Hypot(x, y) == CHOOSE h \in 0..(Abs(x) + Abs(y)) : h * h = x * x + y * y

\* float('inf')
Inf == [num |-> 1, den |-> 0]

\* a < b for an average a = [num, den] (km/h) and a number of tenths of km/h b10
FracLess(a, b10) == a.den # 0 /\ 10 * a.num < b10 * a.den

-----------------------------------------------------------------------------
(* The map and the inputs of the environment *)

\* self.spawn_points (environment.py:40), 0-based as in Python: the locations of
\* the map's spawn points, in half-units: (0, 0, 0) and (30, 40, 0).
spawn_points == [i \in 0..1 |-> IF i = 0 THEN Loc(0, 0, 0) ELSE Loc(60, 80, 0)]

\* Coordinates given to add_intersection: (0, 0) and (60, 80), z = 0.
IntersectionSites == {Loc(0, 0, 0), Loc(120, 160, 0)}

\* Where the simulator may put a vehicle, in half-units:
\*   (0, 0, 0)         spawn point 0; distance 0 from site 1, 100 from site 2
\*   (30, 40, 0)       spawn point 1; distance exactly 50 from both sites
\*   (30.5, 40, 0)     rounds to (30, 40); 50.3 from site 1, 49.7 from site 2
\*   (0.5, 1.5, 0)     rounds to (0, 2); 1.6 from site 1
Locations == {Loc(0, 0, 0), Loc(60, 80, 0), Loc(61, 80, 0), Loc(1, 3, 0)}

\* Planar velocities (m/s): 0 km/h and 18 km/h
Velocities == {<<0, 0>>, <<3, 4>>}

\* carla.TrafficLightState values the model uses
TrafficLightStates == {"Green", "Red"}

\* speed_limit arguments of increment_congestion_statistics (default 30.0), km/h
SpeedLimits == {30, 36}

\* route_indices arguments of set_route: non-empty lists of spawn point indices
Routes == {<<0>>, <<1>>, <<0, 1>>, <<1, 0>>}

max_distance == 50

fps == 20

-----------------------------------------------------------------------------
(* CarlaEnv *)

\* is_in_intersection with the bound included (<= max_distance)
is_in_intersection_Inclusive(vehicle, intersection) ==
    DistanceSq(intersection, vehicle.location) <= (2 * max_distance) * (2 * max_distance)

\* environment.py:164-170
is_in_intersection(vehicle, intersection) ==
    DistanceSq(intersection, vehicle.location) < (2 * max_distance) * (2 * max_distance)

\* One iteration of the loop of get_avg_velocity (environment.py:176-181) for
\* vehicle i: acc holds the locals velocities (tenths of km/h) and n_vehicles.
AvgStep(i, intersection, acc) ==
    LET vehicle == vehicle_list[i]
    IN  IF /\ is_in_intersection(vehicle, intersection)
           /\ vehicle.traffic_light = "Green"
        THEN [velocities |-> acc.velocities
                               + Hypot(vehicle.velocity[1], vehicle.velocity[2]) * 36,
              n_vehicles |-> acc.n_vehicles + 1]
        ELSE acc

\* for vehicle in self.vehicle_list, from vehicle i on
RECURSIVE AvgLoop(_, _, _)
AvgLoop(i, intersection, acc) ==
    IF i > Len(vehicle_list) THEN acc
    ELSE AvgLoop(i + 1, intersection, AvgStep(i, intersection, acc))

\* environment.py:172-183
get_avg_velocity(intersection) ==
    LET r == AvgLoop(1, intersection, [velocities |-> 0, n_vehicles |-> 0])
    IN  IF r.n_vehicles > 0
        THEN [num |-> r.velocities, den |-> 10 * r.n_vehicles]
        ELSE Inf

\* the test of increment_congestion_statistics with <= for <
IsCongested_AtMost(avg_velocity, speed_limit) ==
    avg_velocity.den # 0 /\ 10 * avg_velocity.num <= 5 * speed_limit * avg_velocity.den

\* avg_velocity < 0.5 * speed_limit (environment.py:161)
IsCongested(avg_velocity, speed_limit) == FracLess(avg_velocity, 5 * speed_limit)

\* CongestionStep with the id built without the loop index ('intersection_1')
CongestionStep_FirstId(i, speed_limit, stats) ==
    LET intersection_id == 1
        avg_velocity == get_avg_velocity(intersections[i])
    IN  IF IsCongested(avg_velocity, speed_limit)
        THEN DictSet(stats, intersection_id, stats[intersection_id] + 1)
        ELSE stats

\* One iteration of the loop of increment_congestion_statistics
\* (environment.py:158-162) for intersection i ('intersection_i').
CongestionStep(i, speed_limit, stats) ==
    LET intersection_id == i
        avg_velocity == get_avg_velocity(intersections[i])
    IN  IF IsCongested(avg_velocity, speed_limit)
        THEN DictSet(stats, intersection_id, stats[intersection_id] + 1)
        ELSE stats

\* for i, intersection in enumerate(self.intersections), from intersection i on
RECURSIVE CongestionLoop(_, _, _)
CongestionLoop(i, speed_limit, stats) ==
    IF i > Len(intersections) THEN stats
    ELSE CongestionLoop(i + 1, speed_limit, CongestionStep(i, speed_limit, stats))

\* environment.py:124-143.  The actor is created by the simulator at the spawn
\* point, standing still and under no red light.
spawn_vehicle(spawn_point_id) ==
    /\ Len(vehicle_list) < MaxVehicles
    /\ LET vehicle == [location |-> spawn_points[spawn_point_id],
                       velocity |-> <<0, 0>>,
                       traffic_light |-> "Green"]
           vehicle_id == Len(vehicle_list) + 1
       IN  /\ vehicle_list' = Append(vehicle_list, vehicle)
           /\ travelled_frames' = DictSet(travelled_frames, vehicle_id, 0)
           /\ reached_destination' = DictSet(reached_destination, vehicle_id, FALSE)
    /\ UNCHANGED <<intersections, destination_indices, congestion_statistics>>
    /\ UNCHANGED nodeVars
    /\ UNCHANGED actorVars

\* An actor of the simulator, named by its kind and its position in its list.
Actor(kind, i) == <<kind, i>>

\* environment.py:210-221
spawn_camera ==
    /\ Len(sensor_list) < MaxSensors
    /\ sensor_list' = Append(sensor_list, Actor("camera", Len(sensor_list) + 1))
    /\ UNCHANGED <<ai_controller_list, pedestrian_list, destroyed, refused, teardown,
                   settings>>
    /\ UNCHANGED envVars
    /\ UNCHANGED nodeVars

\* A duration in seconds, as a fraction.
Seconds(num, den) == [num |-> num, den |-> den]

\* self.original_settings (environment.py:36): the settings of the world as
\* the simulator has them when CarlaEnv is created, asynchronous with a
\* variable time step (fixed_delta_seconds = 0.0).
original_settings == [synchronous_mode |-> FALSE, fixed_delta_seconds |-> Seconds(0, 1)]

\* environment.py:45-54: synchronous mode with a time step of 1 / self.fps
set_sync_mode ==
    /\ settings' = [synchronous_mode |-> TRUE, fixed_delta_seconds |-> Seconds(1, fps)]
    /\ UNCHANGED <<sensor_list, ai_controller_list, pedestrian_list, destroyed, refused,
                   teardown>>
    /\ UNCHANGED envVars
    /\ UNCHANGED nodeVars

\* environment.py:383-385: the settings of the world are again those kept at
\* construction.
set_original_settings ==
    /\ settings' = original_settings
    /\ UNCHANGED <<sensor_list, ai_controller_list, pedestrian_list, destroyed, refused,
                   teardown>>
    /\ UNCHANGED envVars
    /\ UNCHANGED nodeVars

\* The physical state of a vehicle is the simulator's: any location, velocity
\* and traffic light of the inputs of the model.
PhysicalStates ==
    [location : Locations, velocity : Velocities, traffic_light : TrafficLightStates]

\* self.world.tick(): the simulator steps the world.  The step and what it
\* does to the vehicles are the simulator's (a given input): the result is the
\* set of the vehicle lists the step can leave, the same vehicles, each in any
\* physical state.
WorldTick(vehicles) == [1..Len(vehicles) -> PhysicalStates]

\* What one turn of the loop of spawn_pedestrians can meet: try_spawn_actor
\* returns None (a collision), the walker and its controller are spawned, or
\* the walker is spawned and spawn_actor of the controller raises.
PedestrianOutcomes == {"collision", "spawned", "raised"}

\* environment.py:94-105 (and 71-82): one turn of the loop, unless an earlier
\* turn has raised.
PedestrianStep(st, outcome) ==
    IF st.raised \/ outcome = "collision"
    THEN st
    ELSE LET walker == Actor("pedestrian", Len(st.pedestrian_list) + 1)
             controller == Actor("controller", Len(st.ai_controller_list) + 1)
         IN  IF outcome = "raised"
             THEN [st EXCEPT !.pedestrian_list = Append(@, walker), !.raised = TRUE]
             ELSE [st EXCEPT !.pedestrian_list = Append(@, walker),
                             !.ai_controller_list = Append(@, controller)]

RECURSIVE PedestrianLoop(_, _, _)
PedestrianLoop(p, tries, st) ==
    IF p > Len(tries)
    THEN st
    ELSE PedestrianLoop(p + 1, tries, PedestrianStep(st, tries[p]))

\* The body shared by spawn_pedestrians and spawn_pedestrians_to_points: the
\* loop over the tries, then self.world.tick() unless the loop has raised.
SpawnPedestrians(tries) ==
    /\ LET st == PedestrianLoop(1, tries, [pedestrian_list |-> pedestrian_list,
                                           ai_controller_list |-> ai_controller_list,
                                           raised |-> FALSE])
       IN  /\ Len(st.pedestrian_list) <= MaxPedestrians
           /\ pedestrian_list' = st.pedestrian_list
           /\ ai_controller_list' = st.ai_controller_list
           /\ IF st.raised
              THEN vehicle_list' = vehicle_list
              ELSE vehicle_list' \in WorldTick(vehicle_list)
    /\ UNCHANGED <<sensor_list, destroyed, refused, teardown, settings>>
    /\ UNCHANGED <<intersections, travelled_frames, destination_indices,
                   reached_destination, congestion_statistics>>
    /\ UNCHANGED nodeVars

\* environment.py:86-106, with n_pedestrians = Len(tries)
spawn_pedestrians(tries) == SpawnPedestrians(tries)

\* environment.py:63-84, with one try for each index of spawn_point_indices
spawn_pedestrians_to_points(tries) == SpawnPedestrians(tries)

\* What a call of destroy() on an actor can do: release the actor and return
\* True, return False with the actor not released, or raise.
DestroyOutcomes == {"released", "refused", "raised"}

\* environment.py:374-381: the tracked actors in the order clear_actors visits them
ClearOrder ==
    sensor_list \o [i \in 1..Len(vehicle_list) |-> Actor("vehicle", i)]
                \o ai_controller_list \o pedestrian_list

\* environment.py:374-381: one destroy() call of the four loops; none of them
\* is in a try block, so an exception ends clear_actors.  st.destroyed holds
\* the actors the simulator has released, st.refused those whose destroy()
\* has failed in this call.
ClearStep(st, actor, outcome) ==
    CASE outcome = "released" -> [st EXCEPT !.destroyed = @ \cup {actor}]
      [] outcome = "refused"  -> [st EXCEPT !.refused = @ \cup {actor}]
      [] outcome = "raised"   -> [st EXCEPT !.refused = @ \cup {actor}, !.raised = TRUE]

RECURSIVE ClearLoop(_, _, _, _)
ClearLoop(p, order, outcomes, st) ==
    IF p > Len(order) \/ st.raised
    THEN st
    ELSE ClearLoop(p + 1, order, outcomes, ClearStep(st, order[p], outcomes[order[p]]))

\* environment.py:372-381.  The call is accepted at any time, also after an
\* earlier call and on actors spawned since.
clear_actors(outcomes) ==
    /\ LET st == ClearLoop(1, ClearOrder, outcomes,
                           [destroyed |-> destroyed, refused |-> {}, raised |-> FALSE])
       IN  /\ destroyed' = st.destroyed
           /\ refused' = st.refused
           /\ teardown' = IF st.raised THEN "raised" ELSE "returned"
    /\ UNCHANGED <<sensor_list, ai_controller_list, pedestrian_list, settings>>
    /\ UNCHANGED envVars
    /\ UNCHANGED nodeVars

\* What one turn of the loop of spawn_vehicles can meet: the spawn point drawn,
\* and whether try_spawn_actor returned an actor there (None on a collision).
VehicleTries ==
    UNION {[1..m -> [spawn_point_id : DOMAIN spawn_points, spawned : BOOLEAN]] :
               m \in 1..MaxVehicles}

\* environment.py:190-202: one turn of the loop of spawn_vehicles
SpawnVehiclesStep(st, try) ==
    IF ~try.spawned
    THEN st
    ELSE LET vehicle == [location |-> spawn_points[try.spawn_point_id],
                         velocity |-> <<0, 0>>,
                         traffic_light |-> "Green"]
             vehicle_id == Len(st.vehicle_list) + 1
         IN  [vehicle_list |-> Append(st.vehicle_list, vehicle),
              travelled_frames |-> DictSet(st.travelled_frames, vehicle_id, 0),
              reached_destination |-> DictSet(st.reached_destination, vehicle_id, FALSE)]

RECURSIVE SpawnVehiclesLoop(_, _, _)
SpawnVehiclesLoop(p, tries, st) ==
    IF p > Len(tries)
    THEN st
    ELSE SpawnVehiclesLoop(p + 1, tries, SpawnVehiclesStep(st, tries[p]))

\* environment.py:185-202, with n_vehicles = Len(tries)
spawn_vehicles(tries) ==
    /\ Len(vehicle_list) + Len(tries) <= MaxVehicles
    /\ LET st == SpawnVehiclesLoop(1, tries,
                                   [vehicle_list |-> vehicle_list,
                                    travelled_frames |-> travelled_frames,
                                    reached_destination |-> reached_destination])
       IN  /\ vehicle_list' = st.vehicle_list
           /\ travelled_frames' = st.travelled_frames
           /\ reached_destination' = st.reached_destination
    /\ UNCHANGED <<intersections, destination_indices, congestion_statistics>>
    /\ UNCHANGED nodeVars
    /\ UNCHANGED actorVars

\* environment.py:145-154
add_intersection(site) ==
    /\ Len(intersections) < MaxIntersections
    /\ intersections' = Append(intersections, site)
    /\ congestion_statistics' = DictSet(congestion_statistics, Len(intersections) + 1, 0)
    /\ UNCHANGED <<vehicle_list, travelled_frames, destination_indices, reached_destination>>
    /\ UNCHANGED nodeVars
    /\ UNCHANGED actorVars

\* environment.py:156-162
increment_congestion_statistics(speed_limit) ==
    /\ \A k \in DOMAIN congestion_statistics : congestion_statistics[k] < MaxFrames
    /\ congestion_statistics' = CongestionLoop(1, speed_limit, congestion_statistics)
    /\ UNCHANGED <<vehicle_list, intersections, travelled_frames, destination_indices,
                   reached_destination>>
    /\ UNCHANGED nodeVars
    /\ UNCHANGED actorVars

\* environment.py:228-238.  vehicle is the actor vehicle_list[v].
set_route(v, route_indices) ==
    /\ v \in 1..Len(vehicle_list)
    /\ destination_indices' =
           DictSet(destination_indices, v, route_indices[Len(route_indices)])
    /\ UNCHANGED <<vehicle_list, intersections, travelled_frames, reached_destination,
                   congestion_statistics>>
    /\ UNCHANGED nodeVars
    /\ UNCHANGED actorVars

\* The test of TravelStep: the rounded position equals the rounded destination.
AtDestination(i) ==
    LET destination == spawn_points[destination_indices[i]]
    IN  /\ Round(vehicle_list[i].location.x) = Round(destination.x)
        /\ Round(vehicle_list[i].location.y) = Round(destination.y)

\* TravelStep with the flag assigned the result of the comparison in every pass
TravelStep_FlagRecomputed(i, st) ==
    IF i \notin DOMAIN destination_indices THEN st
    ELSE LET rd == DictSet(st.reached_destination, i, AtDestination(i))
             tf == IF ~rd[i]
                   THEN DictSet(st.travelled_frames, i, st.travelled_frames[i] + 1)
                   ELSE st.travelled_frames
         IN  [travelled_frames |-> tf, reached_destination |-> rd]

\* TravelStep where a vehicle without a destination skips only the comparison
TravelStep_CountsUnrouted(i, st) ==
    LET rd == IF i \in DOMAIN destination_indices /\ AtDestination(i)
              THEN DictSet(st.reached_destination, i, TRUE)
              ELSE st.reached_destination
        tf == IF ~rd[i]
              THEN DictSet(st.travelled_frames, i, st.travelled_frames[i] + 1)
              ELSE st.travelled_frames
    IN  [travelled_frames |-> tf, reached_destination |-> rd]

\* TravelStep with the two axes joined by "or"
TravelStep_EitherAxis(i, st) ==
    IF i \notin DOMAIN destination_indices THEN st
    ELSE LET destination == spawn_points[destination_indices[i]]
             rd == IF \/ Round(vehicle_list[i].location.x) = Round(destination.x)
                      \/ Round(vehicle_list[i].location.y) = Round(destination.y)
                   THEN DictSet(st.reached_destination, i, TRUE)
                   ELSE st.reached_destination
             tf == IF ~rd[i]
                   THEN DictSet(st.travelled_frames, i, st.travelled_frames[i] + 1)
                   ELSE st.travelled_frames
         IN  [travelled_frames |-> tf, reached_destination |-> rd]

\* One iteration of the loop of increment_travelled_frames
\* (environment.py:243-255) for vehicle i ('vehicle_i'): st holds the two dicts
\* the loop writes.
TravelStep(i, st) ==
    IF i \notin DOMAIN destination_indices THEN st
    ELSE LET destination == spawn_points[destination_indices[i]]
             destination_x == Round(destination.x)
             destination_y == Round(destination.y)
             vehicle_x == Round(vehicle_list[i].location.x)
             vehicle_y == Round(vehicle_list[i].location.y)
             rd == IF vehicle_x = destination_x /\ vehicle_y = destination_y
                   THEN DictSet(st.reached_destination, i, TRUE)
                   ELSE st.reached_destination
             tf == IF ~rd[i]
                   THEN DictSet(st.travelled_frames, i, st.travelled_frames[i] + 1)
                   ELSE st.travelled_frames
         IN  [travelled_frames |-> tf, reached_destination |-> rd]

\* for i, vehicle in enumerate(self.vehicle_list), from vehicle i on
RECURSIVE TravelLoop(_, _)
TravelLoop(i, st) ==
    IF i > Len(vehicle_list) THEN st
    ELSE TravelLoop(i + 1, TravelStep(i, st))

\* environment.py:240-256
increment_travelled_frames ==
    /\ \A k \in DOMAIN travelled_frames : travelled_frames[k] < MaxFrames
    /\ LET r == TravelLoop(1, [travelled_frames |-> travelled_frames,
                                reached_destination |-> reached_destination])
       IN  /\ travelled_frames' = r.travelled_frames
           /\ reached_destination' = r.reached_destination
    /\ UNCHANGED <<vehicle_list, intersections, destination_indices, congestion_statistics>>
    /\ UNCHANGED nodeVars
    /\ UNCHANGED actorVars

\* environment.py:257-262: travelled_frames / fps, as an exact fraction
calculate_travel_times ==
    [vehicle_id \in DOMAIN travelled_frames |->
        [num |-> travelled_frames[vehicle_id], den |-> fps]]

\* The simulator (world.tick()) moves a vehicle: a new location.
MoveVehicle(v, loc) ==
    /\ v \in 1..Len(vehicle_list)
    /\ vehicle_list[v].location # loc
    /\ vehicle_list' = [vehicle_list EXCEPT ![v].location = loc]
    /\ UNCHANGED <<intersections, travelled_frames, destination_indices,
                   reached_destination, congestion_statistics>>
    /\ UNCHANGED nodeVars
    /\ UNCHANGED actorVars

\* The simulator changes a vehicle's velocity.
SetVelocity(v, vel) ==
    /\ v \in 1..Len(vehicle_list)
    /\ vehicle_list[v].velocity # vel
    /\ vehicle_list' = [vehicle_list EXCEPT ![v].velocity = vel]
    /\ UNCHANGED <<intersections, travelled_frames, destination_indices,
                   reached_destination, congestion_statistics>>
    /\ UNCHANGED nodeVars
    /\ UNCHANGED actorVars

\* The simulator changes the traffic light that governs a vehicle.
SetTrafficLight(v, tl) ==
    /\ v \in 1..Len(vehicle_list)
    /\ vehicle_list[v].traffic_light # tl
    /\ vehicle_list' = [vehicle_list EXCEPT ![v].traffic_light = tl]
    /\ UNCHANGED <<intersections, travelled_frames, destination_indices,
                   reached_destination, congestion_statistics>>
    /\ UNCHANGED nodeVars
    /\ UNCHANGED actorVars

-----------------------------------------------------------------------------
(* The inputs of the nodes *)

\* node_id of the nodes of the simulation
NodeIds == {"n1", "n2"}

\* EntityState values read_entity_state returns: a mobile vehicle and a
\* roadside unit
EntityStates ==
    {[is_rsu |-> FALSE, x |-> 3, y |-> 4, direction |-> 90, velocity |-> 5],
     [is_rsu |-> TRUE, x |-> 10, y |-> 20, direction |-> 0, velocity |-> 0]}

\* Camera images read_images returns, by their shape (height, width, channels)
Images == {[shape |-> <<16, 32, 3>>], [shape |-> <<32, 64, 3>>]}

Row(name, xmin, ymin, xmax, ymax) ==
    [name |-> name, xmin |-> xmin, ymin |-> ymin, xmax |-> xmax, ymax |-> ymax]

\* Tables model.forward returns (raw_output.pandas().xyxy[0]), row i of the
\* sequence having the index label i - 1.  With a height of 16 the bounds of
\* the self-detection test are 10 and 1; with 32 they are 20 and 2.
\*   car, ymin 11, ymax 15    low in a frame of height 16, not of height 32
\*   car, ymin 10, ymax 14    ymin on the bound for height 16
\*   car, ymin 11, ymax 1     ymin above the bound, ymax not (height 16)
RawOutputs ==
    {<<>>,
     <<Row("car", 2, 11, 9, 15), Row("dog", 1, 11, 4, 15), Row("person", 5, 11, 7, 15)>>,
     <<Row("car", 0, 10, 6, 14), Row("car", 3, 11, 8, 1)>>,
     <<Row("vehicle", 1, 0, 5, 5), Row("car", 2, 21, 9, 30)>>}

\* A value missing from a row of the table is NaN (the table is a DataFrame:
\* every row has every column of the table).  NaN is written as a number no
\* coordinate takes, and as a label no class has; every comparison with it is
\* false, as in Python.
NaN == -1
NaNLabel == "nan"

\* Tables with a malformed row whose missing value is NaN:
\*   a well-formed car, then a person with no ymax;
\*   a row with no class label, then a well-formed person;
\*   a car with no ymin.
NaNOutputs ==
    {<<Row("car", 0, 10, 6, 14), Row("person", 5, 11, 7, NaN)>>,
     <<Row(NaNLabel, 2, 3, 9, 8), Row("person", 5, 11, 7, 15)>>,
     <<Row("car", 2, NaN, 9, 15)>>}

\* Tables that lack a column, so that every row lacks the field:
\*   a car and a person, no ymax column;
\*   no name column;
\*   a dog and a car low in a frame of height 16, no xmin column.
MissingColumnOutputs ==
    {<<[name |-> "car", xmin |-> 0, ymin |-> 10, xmax |-> 6],
       [name |-> "person", xmin |-> 5, ymin |-> 11, xmax |-> 7]>>,
     <<[xmin |-> 2, ymin |-> 3, xmax |-> 9, ymax |-> 8],
       [xmin |-> 5, ymin |-> 11, xmax |-> 7, ymax |-> 15]>>,
     <<[name |-> "dog", ymin |-> 11, xmax |-> 4, ymax |-> 15],
       [name |-> "car", ymin |-> 11, xmax |-> 9, ymax |-> 15]>>}

MalformedOutputs == NaNOutputs \cup MissingColumnOutputs

Tables == RawOutputs \cup MalformedOutputs

\* Tables of one car in a box with every ymin and ymax up to MaxCoord: with
\* the heights 16 and 32 the boxes lie below, on and above both bounds of the
\* self-detection test.
BoxTables ==
    {<<Row("car", 0, ymin, 1, ymax)>> : ymin \in 0..MaxCoord, ymax \in 0..MaxCoord}

-----------------------------------------------------------------------------
(* Node *)

\* str(i) for the index labels of the tables
Str(i) == <<"0", "1", "2", "3", "4", "5", "6", "7", "8", "9">>[i + 1]

\* the class test with the Python slip "== 'car' or 'person'" (always true)
PassesClassFilter_AlwaysTruthy(row) == row.name = "car" \/ TRUE

\* node.py:49
PassesClassFilter(row) == row.name = "car" \/ row.name = "person"

\* node.py:53, 55: row['ymin'] > im_shape[0] / 1.6, both sides multiplied by
\* 16; false on NaN
AboveYminMax(ymin, H) == ymin # NaN /\ 16 * ymin > 10 * H

\* node.py:54, 55: row['ymax'] > im_shape[0] / 16, both sides multiplied by 16;
\* false on NaN
AboveYmaxMax(ymax, H) == ymax # NaN /\ 16 * ymax > H

\* the self-detection test applied to roadside units too
IsSelfDetection_AnyOwner(row, im_shape, state) ==
    /\ row.name = "car"
    /\ AboveYminMax(row.ymin, im_shape[1])
    /\ AboveYmaxMax(row.ymax, im_shape[1])

\* the self-detection test with ymax compared to the height of the image
IsSelfDetection_YmaxAgainstHeight(row, im_shape, state) ==
    /\ ~state.is_rsu
    /\ row.name = "car"
    /\ AboveYminMax(row.ymin, im_shape[1])
    /\ row.ymax # NaN /\ 16 * row.ymax > 16 * im_shape[1]

\* node.py:52-56: not is_rsu, a car, ymin > im_shape[0] / 1.6 and
\* ymax > im_shape[0] / 16 (both sides of each comparison multiplied by 16)
IsSelfDetection(row, im_shape, state) ==
    /\ ~state.is_rsu
    /\ row.name = "car"
    /\ AboveYminMax(row.ymin, im_shape[1])
    /\ AboveYmaxMax(row.ymax, im_shape[1])

\* the record with xmax and ymax exchanged
MakeDetection_SwappedMax(node_id, i, row, t) ==
    [parent_id |-> node_id,
     detection_id |-> Str(i),
     type |-> row.name,
     xmin |-> row.xmin,
     xmax |-> row.ymax,
     ymin |-> row.ymin,
     ymax |-> row.xmax,
     timestep |-> t]

\* node.py:58-67; i is the index label of the row
MakeDetection(node_id, i, row, t) ==
    [parent_id |-> node_id,
     detection_id |-> Str(i),
     type |-> row.name,
     xmin |-> row.xmin,
     xmax |-> row.xmax,
     ymin |-> row.ymin,
     ymax |-> row.ymax,
     timestep |-> t]

\* the iteration numbering the records by their position in the output
ReduceStep_CountsRecords(node_id, p, rows, im_shape, state, t, detections) ==
    LET row == rows[p]
    IN  IF PassesClassFilter(row)
        THEN IF IsSelfDetection(row, im_shape, state)
             THEN detections
             ELSE Append(detections, MakeDetection(node_id, Len(detections), row, t))
        ELSE detections

\* One iteration of the loop of summarize_output (node.py:48-68) for the row at
\* position p of the table.
ReduceStep(node_id, p, rows, im_shape, state, t, detections) ==
    LET row == rows[p]
    IN  IF PassesClassFilter(row)
        THEN IF IsSelfDetection(row, im_shape, state)
             THEN detections
             ELSE Append(detections, MakeDetection(node_id, p - 1, row, t))
        ELSE detections

\* for i, row in pandas_yolo_results.iterrows(), from position p on
RECURSIVE ReduceLoop(_, _, _, _, _, _, _)
ReduceLoop(node_id, p, rows, im_shape, state, t, detections) ==
    IF p > Len(rows) THEN detections
    ELSE ReduceLoop(node_id, p + 1, rows, im_shape, state, t,
                    ReduceStep(node_id, p, rows, im_shape, state, t, detections))

\* row[f] raises KeyError when the table has no column f
Has(row, f) == f \in DOMAIN row

\* node.py:58-67: the fields read to build the record
BuildRaises(row) == \E f \in {"xmin", "xmax", "ymin", "ymax"} : ~Has(row, f)

\* Whether the iteration of the loop of summarize_output (node.py:48-68) for
\* this row raises, following the order in which the fields are read: the
\* label at line 49; for a car of a mobile owner ymin at line 55 and, when the
\* first comparison is true, ymax; the four coordinates at lines 58-67 unless
\* the row was dropped before.
RowRaises(row, im_shape, state) ==
    IF ~Has(row, "name") THEN TRUE
    ELSE IF ~PassesClassFilter(row) THEN FALSE
    ELSE IF ~state.is_rsu /\ row.name = "car"
         THEN IF ~Has(row, "ymin") THEN TRUE
              ELSE IF AboveYminMax(row.ymin, im_shape[1])
                   THEN IF ~Has(row, "ymax") THEN TRUE
                        ELSE IF AboveYmaxMax(row.ymax, im_shape[1]) THEN FALSE
                             ELSE BuildRaises(row)
                   ELSE BuildRaises(row)
         ELSE BuildRaises(row)

\* node.py:48-68: the loop has no handler, so summarize_output raises as soon
\* as one iteration does
ReduceRaises(rows, im_shape, state) ==
    \E p \in 1..Len(rows) : RowRaises(rows[p], im_shape, state)

\* the summary with the two coordinates exchanged
MakeSummary_SwappedXY(node_id, state, detections, t) ==
    [node_id |-> node_id,
     is_rsu |-> state.is_rsu,
     agent_x |-> state.y,
     agent_y |-> state.x,
     direction |-> state.direction,
     velocity |-> state.velocity,
     detections |-> detections,
     timestep |-> t]

\* node.py:70-79
MakeSummary(node_id, state, detections, t) ==
    [node_id |-> node_id,
     is_rsu |-> state.is_rsu,
     agent_x |-> state.x,
     agent_y |-> state.y,
     direction |-> state.direction,
     velocity |-> state.velocity,
     detections |-> detections,
     timestep |-> t]

\* node.py:33-80, for the node node_id at time t (self.env.now)
summarize_output(node_id, raw_output, im_shape, state, t) ==
    MakeSummary(node_id, state,
                ReduceLoop(node_id, 1, raw_output, im_shape, state, t, <<>>), t)

\* the log assigned instead of extended
ExtendLog_Assign(log, detections) == detections

\* node.py:92
ExtendLog(log, detections) == log \o detections

\* the summary stored under the key of the first node
PublishSummary_FixedKey(pipe, node_id, output) == DictSet(pipe, "n1", output)

\* the map written in a later turn than the log
PublishSummary_Deferred(pipe, node_id, output) == pipe

\* the map replaced by the entry of the publishing node alone
PublishSummary_ClearsOthers(pipe, node_id, output) == DictSet(EmptyDict, node_id, output)

\* node.py:94
PublishSummary(pipe, node_id, output) == DictSet(pipe, node_id, output)

\* a turn that sleeps for two ticks
ResumeAt_TwoTicks(t) == t + 2

\* node.py:96: self.env.timeout(1), the time at which the generator resumes
ResumeAt(t) == t + 1

\* node.py:87-96: one turn of the loop of run() of node n, from its resumption
\* at the current time to its next yield.  state and image are what read_data
\* returns, raw_output what model.forward returns.
Run(n, state, image, raw_output) ==
    /\ ~crashed
    /\ n \notin stopped
    /\ wake[n] = now
    /\ ~ReduceRaises(raw_output, image.shape, state)
    /\ LET output == summarize_output(n, raw_output, image.shape, state, now)
       IN  /\ yolo_images' = ExtendLog(yolo_images, output.detections)
           /\ data_pipe' = PublishSummary(data_pipe, n, output)
           /\ frame' = DictSet(frame, n, [state |-> state, image |-> image,
                                          raw_output |-> raw_output, output |-> output])
    /\ wake' = [wake EXCEPT ![n] = ResumeAt(now)]
    /\ UNCHANGED <<now, stopped, crashed>>
    /\ UNCHANGED envVars
    /\ UNCHANGED actorVars

\* a failed read answered by the inputs of the node's previous turn
PipesAfterFailedRead_Stale(n) ==
    IF n \in DOMAIN frame
    THEN LET output == summarize_output(n, frame[n].raw_output, frame[n].image.shape,
                                        frame[n].state, now)
         IN  [data_pipe |-> PublishSummary(data_pipe, n, output),
              yolo_images |-> ExtendLog(yolo_images, output.detections)]
    ELSE [data_pipe |-> data_pipe, yolo_images |-> yolo_images]

\* What a turn of run() whose read_data raises leaves in the two shared pipes:
\* the exception leaves run() at node.py:88, before the lines 89-94.
PipesAfterFailedRead(n) == [data_pipe |-> data_pipe, yolo_images |-> yolo_images]

\* node.py:87-88 when the entity state or the camera frame of node n is
\* unavailable at the current time (read_data raises): run() has no handler,
\* so the generator ends with the exception and is never resumed.
ReadFails(n) ==
    /\ ~crashed
    /\ n \notin stopped
    /\ wake[n] = now
    /\ data_pipe' = PipesAfterFailedRead(n).data_pipe
    /\ yolo_images' = PipesAfterFailedRead(n).yolo_images
    /\ stopped' = stopped \cup {n}
    /\ UNCHANGED <<now, wake, frame, crashed>>
    /\ UNCHANGED envVars
    /\ UNCHANGED actorVars

\* node.py:87-90 when summarize_output raises on a row of the table: the
\* exception leaves run() at line 90, before lines 92-94, and ends the
\* generator as a failed read does.
RunRaises(n, state, image, raw_output) ==
    /\ ~crashed
    /\ n \notin stopped
    /\ wake[n] = now
    /\ ReduceRaises(raw_output, image.shape, state)
    /\ stopped' = stopped \cup {n}
    /\ UNCHANGED <<now, wake, frame, data_pipe, yolo_images, crashed>>
    /\ UNCHANGED envVars
    /\ UNCHANGED actorVars

\* The environment processes the failure of a process nobody waits for after
\* the events queued before it, which are the resumptions of the other nodes
\* for the current time: its run then ends with the node's exception.
Crash ==
    /\ ~crashed
    /\ stopped # {}
    /\ \A n \in NodeIds \ stopped : wake[n] > now
    /\ crashed' = TRUE
    /\ UNCHANGED <<now, wake, frame, data_pipe, yolo_images, stopped>>
    /\ UNCHANGED envVars
    /\ UNCHANGED actorVars

\* the earliest time a generator is waiting for
NextWake == CHOOSE t \in {wake[n] : n \in NodeIds} : \A n \in NodeIds : t <= wake[n]

\* The environment's clock: when no generator is left to resume at the current
\* time, env.now moves to the time of the next timeout (node.py:96).
\* a clock that moves on as soon as one generator waits for a later time
Tick_Eager ==
    /\ ~crashed
    /\ stopped = {}
    /\ \E n \in NodeIds : wake[n] > now
    /\ now' = CHOOSE t \in {wake[n] : n \in NodeIds} : \A n \in NodeIds : t >= wake[n]
    /\ now' <= MaxTick
    /\ UNCHANGED <<wake, frame, data_pipe, yolo_images, stopped, crashed>>
    /\ UNCHANGED envVars
    /\ UNCHANGED actorVars

\* The environment's clock: when no generator is left to resume at the current
\* time, the time becomes that of the earliest pending timeout.
Tick ==
    /\ ~crashed
    /\ stopped = {}
    /\ \A n \in NodeIds : wake[n] > now
    /\ now < MaxTick
    /\ now' = NextWake
    /\ UNCHANGED <<wake, frame, data_pipe, yolo_images, stopped, crashed>>
    /\ UNCHANGED envVars
    /\ UNCHANGED actorVars

-----------------------------------------------------------------------------
(* Specifications *)

\* CarlaEnv.__init__ (environment.py:16-29)
InitEnv ==
    /\ vehicle_list = <<>>
    /\ intersections = <<>>
    /\ travelled_frames = EmptyDict
    /\ destination_indices = EmptyDict
    /\ reached_destination = EmptyDict
    /\ congestion_statistics = EmptyDict

\* The nodes as created (node.py:16-23), each with its run() generator started
\* at time 0, an empty data_pipe and an empty result_storage_pipe['yolo_images'].
InitNodes ==
    /\ now = 0
    /\ wake = [n \in NodeIds |-> 0]
    /\ frame = EmptyDict
    /\ data_pipe = EmptyDict
    /\ yolo_images = <<>>
    /\ stopped = {}
    /\ crashed = FALSE

\* CarlaEnv.__init__ (environment.py:17-19): no camera, no pedestrian.
InitActors ==
    /\ sensor_list = <<>>
    /\ ai_controller_list = <<>>
    /\ pedestrian_list = <<>>
    /\ destroyed = {}
    /\ refused = {}
    /\ teardown = "idle"
    /\ settings = original_settings

Init == InitEnv /\ InitNodes /\ InitActors

\* Travel-time accounting: vehicles, their routes and positions, and the passes
\* of increment_travelled_frames.
NextTravel ==
    \/ \E sp \in DOMAIN spawn_points : spawn_vehicle(sp)
    \/ \E tries \in VehicleTries : spawn_vehicles(tries)
    \/ \E v \in 1..MaxVehicles, r \in Routes : set_route(v, r)
    \/ \E v \in 1..MaxVehicles, loc \in Locations : MoveVehicle(v, loc)
    \/ increment_travelled_frames

SpecTravel == Init /\ [][NextTravel]_vars

\* Congestion statistics: vehicles, their positions, velocities and traffic
\* lights, the intersections, and the passes of increment_congestion_statistics.
NextCongestion ==
    \/ \E sp \in DOMAIN spawn_points : spawn_vehicle(sp)
    \/ \E tries \in VehicleTries : spawn_vehicles(tries)
    \/ \E site \in IntersectionSites : add_intersection(site)
    \/ \E v \in 1..MaxVehicles, loc \in Locations : MoveVehicle(v, loc)
    \/ \E v \in 1..MaxVehicles, vel \in Velocities : SetVelocity(v, vel)
    \/ \E v \in 1..MaxVehicles, tl \in TrafficLightStates : SetTrafficLight(v, tl)
    \/ \E L \in SpeedLimits : increment_congestion_statistics(L)

SpecCongestion == Init /\ [][NextCongestion]_vars

\* The vehicles, the intersections and both accountings of CarlaEnv together.
NextEnv ==
    \/ \E sp \in DOMAIN spawn_points : spawn_vehicle(sp)
    \/ \E tries \in VehicleTries : spawn_vehicles(tries)
    \/ \E site \in IntersectionSites : add_intersection(site)
    \/ \E v \in 1..MaxVehicles, r \in Routes : set_route(v, r)
    \/ \E v \in 1..MaxVehicles, loc \in Locations : MoveVehicle(v, loc)
    \/ \E v \in 1..MaxVehicles, vel \in Velocities : SetVelocity(v, vel)
    \/ \E v \in 1..MaxVehicles, tl \in TrafficLightStates : SetTrafficLight(v, tl)
    \/ \E L \in SpeedLimits : increment_congestion_statistics(L)
    \/ increment_travelled_frames

SpecEnv == Init /\ [][NextEnv]_vars

\* A world-state store as the run of CarlaEnv leaves it: one vehicle, spawned at
\* spawn point 0 and routed to spawn point 1, counted for one frame, and one
\* intersection counted for one frame.
InitRecorded ==
    /\ vehicle_list = <<[location |-> Loc(1, 3, 0), velocity |-> <<0, 0>>,
                         traffic_light |-> "Green"]>>
    /\ intersections = <<Loc(0, 0, 0)>>
    /\ travelled_frames = DictSet(EmptyDict, 1, 1)
    /\ destination_indices = DictSet(EmptyDict, 1, 1)
    /\ reached_destination = DictSet(EmptyDict, 1, FALSE)
    /\ congestion_statistics = DictSet(EmptyDict, 1, 1)
    /\ InitNodes
    /\ InitActors

NextNode ==
    \/ \E n \in NodeIds, state \in EntityStates, image \in Images,
          raw_output \in Tables : Run(n, state, image, raw_output)
    \/ \E n \in NodeIds, state \in EntityStates, image \in Images,
          raw_output \in Tables : RunRaises(n, state, image, raw_output)
    \/ \E n \in NodeIds : ReadFails(n)
    \/ Crash
    \/ Tick

SpecNode == InitRecorded /\ [][NextNode]_vars

\* The actors CarlaEnv tracks, as clear_actors visits them.
TrackedActors == {ClearOrder[i] : i \in 1..Len(ClearOrder)}

Tries == UNION {[1..m -> PedestrianOutcomes] : m \in 0..MaxPedestrians}

\* The setup of a simulation: the settings of the world, the vehicles and the
\* pedestrians with their controllers, each spawn of pedestrians followed by a
\* step of the world.
NextSetup ==
    \/ set_sync_mode
    \/ set_original_settings
    \/ \E p \in DOMAIN spawn_points : spawn_vehicle(p)
    \/ \E tries \in Tries : spawn_pedestrians(tries)
    \/ \E tries \in Tries : spawn_pedestrians_to_points(tries)

SpecSetup == Init /\ [][NextSetup]_vars

\* The walkers and controllers the calls of spawn_pedestrians leave tracked: a
\* controller for each walker, but for a walker whose controller spawn_actor
\* has failed to spawn.
SpawnedPedestrians ==
    {[pedestrian_list |-> [i \in 1..mc[1] |-> Actor("pedestrian", i)],
      ai_controller_list |-> [i \in 1..mc[2] |-> Actor("controller", i)]] :
        mc \in {x \in (0..MaxPedestrians) \X (0..MaxPedestrians) : x[2] <= x[1]}}

\* The state of CarlaEnv when the pedestrians of the simulation have been
\* spawned (SpecSetup): the walkers and controllers are tracked and no actor
\* has been destroyed yet.
InitTeardown ==
    /\ InitEnv
    /\ InitNodes
    /\ sensor_list = <<>>
    /\ \E walkers \in SpawnedPedestrians :
          /\ pedestrian_list = walkers.pedestrian_list
          /\ ai_controller_list = walkers.ai_controller_list
    /\ destroyed = {}
    /\ refused = {}
    /\ teardown = "idle"
    /\ settings = original_settings

\* The teardown of a simulation and the calls CarlaEnv accepts around it: the
\* settings are set and restored, cameras and vehicles are spawned, and
\* clear_actors is called, any number of times and in any order.  The walkers
\* and their controllers are those of the setup.
NextTeardown ==
    \/ set_sync_mode
    \/ set_original_settings
    \/ spawn_camera
    \/ \E p \in DOMAIN spawn_points : spawn_vehicle(p)
    \/ \E tries \in VehicleTries : spawn_vehicles(tries)
    \/ \E outcomes \in [TrackedActors -> DestroyOutcomes] : clear_actors(outcomes)

SpecTeardown == InitTeardown /\ [][NextTeardown]_vars

\* One turn of one node on a table of one car, for every box of BoxTables.
NextSuppress ==
    \E state \in EntityStates, image \in Images, raw_output \in BoxTables :
        Run("n1", state, image, raw_output)

SpecSuppress == InitRecorded /\ [][NextSuppress]_vars

\* The nodes with no failure: every read and every reduction succeeds.
RunSome(n) ==
    \E state \in EntityStates, image \in Images, raw_output \in RawOutputs :
        Run(n, state, image, raw_output)

NextNodeRunning ==
    \/ \E n \in NodeIds : RunSome(n)
    \/ Tick

\* The environment's run resumes every generator whose timeout has elapsed and
\* moves the clock when none is left for the current time.
SpecNodeFair ==
    /\ InitRecorded
    /\ [][NextNodeRunning]_vars
    /\ \A n \in NodeIds : WF_vars(RunSome(n))
    /\ WF_vars(Tick)

-----------------------------------------------------------------------------
(* Properties of CarlaEnv *)

Vehicles == 1..Len(vehicle_list)

\* C1: once reached_destination[e] is true it stays true, and from then on
\* travelled_frames[e] keeps its value, in every step (accounting passes,
\* vehicle movements, set_route calls, spawns).
C1_ArrivalIsFinal ==
    [][\A e \in DOMAIN reached_destination :
          reached_destination[e] =>
              /\ e \in DOMAIN reached_destination'
              /\ reached_destination'[e]
              /\ travelled_frames'[e] = travelled_frames[e]]_vars

\* A vehicle that has arrived after being counted, and is now away from the
\* destination of its current route.
C1_Witness ==
    \E e \in Vehicles :
        /\ reached_destination[e]
        /\ travelled_frames[e] >= 1
        /\ e \in DOMAIN destination_indices
        /\ ~AtDestination(e)

\* C2: a vehicle with no entry in destination_indices has travelled_frames = 0
\* and reached_destination = FALSE, wherever it is, and its travel time is
\* reported as 0.
C2_UnroutedStaysAtZero ==
    \A v \in Vehicles :
        v \notin DOMAIN destination_indices =>
            /\ v \in DOMAIN travelled_frames /\ travelled_frames[v] = 0
            /\ v \in DOMAIN reached_destination /\ ~reached_destination[v]
            /\ v \in DOMAIN calculate_travel_times
            /\ calculate_travel_times[v].num = 0
            /\ calculate_travel_times[v].den # 0

\* Vehicle 1 has no route and stands on a spawn point, while vehicle 2, spawned
\* after it, has been counted by two passes.
C2_Witness ==
    /\ Len(vehicle_list) = 2
    /\ 1 \notin DOMAIN destination_indices
    /\ \E i \in DOMAIN spawn_points : vehicle_list[1].location = spawn_points[i]
    /\ travelled_frames[2] = 2

\* The vehicles that qualify for an intersection at site: strictly within
\* radius 50 and on green.
Qualifying(site) ==
    {v \in Vehicles :
        /\ DistanceSq(vehicle_list[v].location, site) < 4 * 50 * 50
        /\ vehicle_list[v].traffic_light = "Green"}

\* speed of vehicle v in tenths of km/h
SpeedTenths(v) == Hypot(vehicle_list[v].velocity[1], vehicle_list[v].velocity[2]) * 36

RECURSIVE SumSpeeds(_)
SumSpeeds(S) ==
    IF S = {} THEN 0
    ELSE LET v == CHOOSE u \in S : TRUE IN SpeedTenths(v) + SumSpeeds(S \ {v})

\* the mean of the qualifying speeds is strictly below L / 2
MeanBelowHalf(site, L) ==
    /\ Qualifying(site) # {}
    /\ 2 * SumSpeeds(Qualifying(site)) < 10 * L * Cardinality(Qualifying(site))

\* C3: in every state, a pass of increment_congestion_statistics with speed
\* limit L yields, for every intersection, its counter plus exactly 1 when the
\* mean of its own qualifying speeds is strictly below L / 2, and its counter
\* unchanged otherwise (a mean equal to L / 2, or no qualifying vehicle).
C3_CountsIffBelowHalfLimit ==
    \A L \in SpeedLimits :
        LET after == CongestionLoop(1, L, congestion_statistics)
        IN  /\ DOMAIN after = 1..Len(intersections)
            /\ \A k \in 1..Len(intersections) :
                   after[k] = IF MeanBelowHalf(intersections[k], L)
                              THEN congestion_statistics[k] + 1
                              ELSE congestion_statistics[k]

\* Two intersections: the later one has been counted, the earlier one never,
\* and a vehicle on green within radius of the earlier one moves at exactly
\* half of the limit 36.
C3_Witness ==
    /\ Len(intersections) = 2
    /\ congestion_statistics[1] = 0
    /\ congestion_statistics[2] >= 1
    /\ Qualifying(intersections[1]) # {}
    /\ SumSpeeds(Qualifying(intersections[1])) = 180 * Cardinality(Qualifying(intersections[1]))

\* what the claim gives for the average at a site
ExpectedAvg(site) ==
    IF Qualifying(site) = {} THEN Inf
    ELSE [num |-> SumSpeeds(Qualifying(site)), den |-> 10 * Cardinality(Qualifying(site))]

\* C4: get_avg_velocity returns the infinity sentinel when no vehicle qualifies
\* and otherwise (sum of the qualifying speeds) / (number of qualifying
\* vehicles), a vehicle qualifying iff it is strictly within 50 of the
\* intersection and on green.
C4_AverageOfQualifying ==
    \A site \in IntersectionSites : get_avg_velocity(site) = ExpectedAvg(site)

\* One vehicle qualifies at 18 km/h; the other is on green at distance exactly
\* 50 and stands still, so that counting it would halve the average.
C4_Witness ==
    \E site \in IntersectionSites :
        \E v, w \in Vehicles :
            /\ Qualifying(site) = {v}
            /\ SpeedTenths(v) = 180
            /\ DistanceSq(vehicle_list[w].location, site) = 4 * 50 * 50
            /\ vehicle_list[w].traffic_light = "Green"
            /\ SpeedTenths(w) = 0

\* C5: no step lowers a congestion counter or a travelled_frames counter, and
\* no step raises one by more than 1.
C5_CountersStepByAtMostOne ==
    [][/\ \A k \in DOMAIN congestion_statistics :
             /\ k \in DOMAIN congestion_statistics'
             /\ congestion_statistics'[k] \in
                    {congestion_statistics[k], congestion_statistics[k] + 1}
       /\ \A v \in DOMAIN travelled_frames :
             /\ v \in DOMAIN travelled_frames'
             /\ travelled_frames'[v] \in
                    {travelled_frames[v], travelled_frames[v] + 1}]_vars

\* Both intersections and a vehicle have been counted twice.
C5_Witness ==
    /\ Len(intersections) = 2
    /\ congestion_statistics[1] = 2
    /\ congestion_statistics[2] = 2
    /\ \E v \in Vehicles : travelled_frames[v] = 2

-----------------------------------------------------------------------------
(* Properties of Node *)

\* the detections of a summary, as a set
Records(output) == {output.detections[i] : i \in 1..Len(output.detections)}

\* the row at position p of the table node n read last has no record in the
\* summary node n built from it
Dropped(n, p) == \A d \in Records(frame[n].output) : d.detection_id # Str(p - 1)

\* every published record has a class of the set allowed, and no row of
\* another class has a record
OnlyClasses(allowed) ==
    /\ \A i \in 1..Len(yolo_images) : yolo_images[i].type \in allowed
    /\ \A n \in DOMAIN data_pipe : \A d \in Records(data_pipe[n]) : d.type \in allowed
    /\ \A n \in DOMAIN frame :
           \A p \in 1..Len(frame[n].raw_output) :
               frame[n].raw_output[p].name \notin allowed => Dropped(n, p)

\* C6 as amended: every record in the output of summarize_output carries a
\* class label in {"car", "person"}; a row with any other label never produces
\* a record, whatever its geometry and whoever the owner is.
C6_OnlyCarOrPerson == OnlyClasses({"car", "person"})

\* C6 as stated: the allowed set is {"vehicle", "person"}.
C6_AsStated == OnlyClasses({"vehicle", "person"})

\* A roadside unit has reduced the table <<vehicle, car>>: the car row has a
\* record, the vehicle row has none.
C6_Witness ==
    \E n \in DOMAIN frame :
        /\ frame[n].state.is_rsu
        /\ Len(frame[n].raw_output) = 2
        /\ frame[n].raw_output[1].name = "vehicle"
        /\ Dropped(n, 1)
        /\ \E d \in Records(data_pipe[n]) : d.type = "car" /\ d.detection_id = "1"

\* the suppression test of the claim for a row of class cls: the owner is not
\* a roadside unit, ymin > H / 1.6 and ymax > H / 16
SuppressionCase(n, p, cls) ==
    LET row == frame[n].raw_output[p]
        H == frame[n].image.shape[1]
    IN  /\ ~frame[n].state.is_rsu
        /\ row.name = cls
        /\ row.ymin # NaN /\ 16 * row.ymin > 10 * H
        /\ row.ymax # NaN /\ 16 * row.ymax > H

\* a row that passes the class filter {cls, "person"} is dropped iff it is a
\* suppression case
SuppressedIff(cls) ==
    \A n \in DOMAIN frame :
        \A p \in 1..Len(frame[n].raw_output) :
            frame[n].raw_output[p].name \in {cls, "person"} =>
                (Dropped(n, p) <=> SuppressionCase(n, p, cls))

\* C7 as amended: a row that passes the class filter is dropped iff the owner
\* is not a roadside unit, the class is "car", ymin > image_height / 1.6 and
\* ymax > image_height / 16.
C7_SuppressedIffOwnCar == SuppressedIff("car")

\* C7 as stated: the class of the test is "vehicle".
C7_AsStated == SuppressedIff("vehicle")

\* A mobile owner with a frame of height 16 has reduced <<car, car>> with
\* ymin = 10 (on the bound) and with ymin = 11, ymax = 1: both are kept.
C7_Witness ==
    \E n \in DOMAIN frame :
        /\ ~frame[n].state.is_rsu
        /\ frame[n].image.shape[1] = 16
        /\ Len(frame[n].raw_output) = 2
        /\ Len(frame[n].output.detections) = 2
        /\ frame[n].raw_output[1].ymin = 10
        /\ frame[n].raw_output[2].ymax = 1

\* node n runs its turn in this step
Ran(n) == wake'[n] # wake[n]

\* C8: the step in which node n publishes at tick T leaves at key n exactly the
\* summary of n's inputs (node id, is_rsu, position, heading, speed, tick T,
\* detection list); every other step, the publishes of other nodes included,
\* leaves the entry of n as it is; the keys of the map are node ids.
C8_RoundTrip ==
    [][/\ DOMAIN data_pipe' \subseteq NodeIds
       /\ \A n \in NodeIds :
             /\ Ran(n) =>
                   /\ n \in DOMAIN data_pipe'
                   /\ data_pipe'[n] =
                          [node_id |-> n,
                           is_rsu |-> frame'[n].state.is_rsu,
                           agent_x |-> frame'[n].state.x,
                           agent_y |-> frame'[n].state.y,
                           direction |-> frame'[n].state.direction,
                           velocity |-> frame'[n].state.velocity,
                           detections |-> frame'[n].output.detections,
                           timestep |-> now]
             /\ (~Ran(n) /\ n \in DOMAIN data_pipe) =>
                   /\ n \in DOMAIN data_pipe'
                   /\ data_pipe'[n] = data_pipe[n]]_vars

\* At tick 1, n1 has published for tick 1 while the entry of n2 is still its
\* summary of tick 0, with a detection in it.
C8_Witness ==
    /\ now = 1
    /\ DOMAIN data_pipe = NodeIds
    /\ data_pipe["n1"].timestep = 1
    /\ data_pipe["n2"].timestep = 0
    /\ data_pipe["n2"].detections # <<>>
    /\ data_pipe["n2"].agent_x # data_pipe["n2"].agent_y

\* a row survives the reducer for an owner and a frame height H
Survives(row, H, is_rsu) ==
    /\ row.name \in {"car", "person"}
    /\ ~(/\ ~is_rsu
         /\ row.name = "car"
         /\ row.ymin # NaN /\ 16 * row.ymin > 10 * H
         /\ row.ymax # NaN /\ 16 * row.ymax > H)

SurvivorCount(rows, H, is_rsu) ==
    Cardinality({p \in 1..Len(rows) : Survives(rows[p], H, is_rsu)})

\* C9: every step leaves the entries of the detection log where they are; a
\* publish of node n lengthens the log by the number of rows that survived the
\* reducer in that publish, and no other step changes the log.
C9_LogAppendOnly ==
    [][/\ Len(yolo_images') >= Len(yolo_images)
       /\ SubSeq(yolo_images', 1, Len(yolo_images)) = yolo_images
       /\ \A n \in NodeIds :
             Ran(n) =>
                 Len(yolo_images') - Len(yolo_images) =
                     SurvivorCount(frame'[n].raw_output, frame'[n].image.shape[1],
                                   frame'[n].state.is_rsu)
       /\ (\A n \in NodeIds : ~Ran(n)) => yolo_images' = yolo_images]_vars

\* The log holds entries of both nodes and of both ticks, and the last publish
\* added nothing or something after them.
C9_Witness ==
    /\ Len(yolo_images) >= 4
    /\ \E i, j, k \in 1..Len(yolo_images) :
          /\ i < j /\ j < k
          /\ yolo_images[i].parent_id = "n1" /\ yolo_images[i].timestep = 0
          /\ yolo_images[j].parent_id = "n2" /\ yolo_images[j].timestep = 0
          /\ yolo_images[k].timestep = 1

\* C10: a turn of node n writes only the key n of the map and only appends to
\* the log; the entries of the other nodes and the variables of the world
\* state store are unchanged by it.
C10_NodeWritesOwnKeyOnly ==
    [][\A n \in NodeIds :
          Ran(n) =>
              /\ DOMAIN data_pipe' = DOMAIN data_pipe \cup {n}
              /\ \A m \in DOMAIN data_pipe : m # n => data_pipe'[m] = data_pipe[m]
              /\ SubSeq(yolo_images', 1, Len(yolo_images)) = yolo_images
              /\ travelled_frames' = travelled_frames
              /\ reached_destination' = reached_destination
              /\ destination_indices' = destination_indices
              /\ congestion_statistics' = congestion_statistics]_vars

\* Both nodes have an entry, n2 published after n1 in tick 0 and n1 again in
\* tick 1, and the store holds its counters.
C10_Witness ==
    /\ DOMAIN data_pipe = NodeIds
    /\ data_pipe["n1"].timestep = 1
    /\ data_pipe["n2"].timestep = 0
    /\ yolo_images # <<>>
    /\ travelled_frames[1] = 1
    /\ congestion_statistics[1] = 1

\* ---------------------------------------------------------------------------
\* C11  Skip-and-continue after unavailable data: a turn of node n whose
\* read_data fails leaves n not stopped and due again at the next tick, and
\* the run of the simulation has not ended.
C11_SkipAndContinue ==
    [][\A n \in NodeIds :
          ReadFails(n) => /\ n \notin stopped'
                          /\ wake'[n] = ResumeAt(now)
                          /\ ~crashed']_vars

\* ---------------------------------------------------------------------------
\* C12  State unchanged on a failed read: the turn of node n whose read_data
\* fails leaves the entry of n in the latest-summary map as it was (absent when
\* n never published), appends nothing to the detection log, and publishes no
\* summary carrying the current tick.
C12_FailedReadPublishesNothing ==
    [][\A n \in NodeIds :
          ReadFails(n) =>
              /\ DOMAIN data_pipe' = DOMAIN data_pipe
              /\ \A m \in DOMAIN data_pipe : data_pipe'[m] = data_pipe[m]
              /\ yolo_images' = yolo_images
              /\ \/ n \notin DOMAIN data_pipe'
                 \/ data_pipe'[n].timestep < now]_vars

\* Node n published at tick 0 with a detection and its read failed at tick 1:
\* its entry is still the summary of tick 0; and a node whose first read
\* failed has no entry.
C12_Witness ==
    /\ now = 1
    /\ \E n \in stopped : /\ n \in DOMAIN data_pipe
                          /\ data_pipe[n].timestep = 0
                          /\ data_pipe[n].detections # <<>>
                          /\ wake[n] = 1

\* ---------------------------------------------------------------------------
\* C13  Barrier at the tick boundary: the clock advances by one tick at a
\* time; when it leaves tick T the map entry of every running node has
\* timestep T; and when a node takes its turn for a tick, every running node
\* has finished its turn for the tick before (its entry is not older than the
\* tick before, and it is not waiting for an earlier time).
Running == NodeIds \ stopped

C13_Barrier ==
    [][/\ now' # now =>
            /\ now' = now + 1
            /\ \A n \in Running : /\ n \in DOMAIN data_pipe
                                   /\ data_pipe[n].timestep = now
       /\ \A n \in NodeIds :
            Ran(n) => \A m \in Running :
                          /\ wake[m] >= now
                          /\ now > 0 => /\ m \in DOMAIN data_pipe
                                        /\ data_pipe[m].timestep >= now - 1]_vars

\* The clock is at tick 1, one node has taken its turn for tick 1 and the
\* other has not yet: its entry is the one of tick 0.
C13_Witness ==
    /\ now = 1
    /\ \E n, m \in Running :
          /\ n \in DOMAIN data_pipe /\ data_pipe[n].timestep = 1
          /\ m \in DOMAIN data_pipe /\ data_pipe[m].timestep = 0
          /\ wake[m] = 1

\* ---------------------------------------------------------------------------
\* C14  One summary per node per tick: with no failure, for every tick T the
\* clock reaches each node eventually publishes a summary with timestep T; a
\* publish carries the current tick, which is 0 for the first publish of a
\* node and one more than its previous publish otherwise (so no timestep is
\* published twice); and no node ever stops.
PublishedFor(n, T) == n \in DOMAIN data_pipe /\ data_pipe[n].timestep = T

C14_OncePerTick ==
    /\ \A T \in 0..MaxTick : \A n \in NodeIds : (now = T) ~> PublishedFor(n, T)
    /\ [][\A n \in NodeIds :
             Ran(n) => /\ PublishedFor(n, now)'
                       /\ IF n \in DOMAIN data_pipe
                          THEN data_pipe'[n].timestep = data_pipe[n].timestep + 1
                          ELSE data_pipe'[n].timestep = 0]_vars
    /\ [](stopped = {} /\ ~crashed)

\* Both nodes have published for tick 0 and then for tick 1, and each is
\* waiting for tick 2.
C14_Witness ==
    /\ now = 1
    /\ stopped = {}
    /\ \A n \in NodeIds : PublishedFor(n, 1) /\ wake[n] = 2

\* ---------------------------------------------------------------------------
\* C15  Teardown is exhaustive and best-effort: a call of clear_actors leaves
\* every tracked sensor, vehicle, AI controller and pedestrian released,
\* except those whose own release failed in the call; the failure of one
\* release leaves no other actor unreleased.  (A step that leaves the tracked
\* actors and the settings as they are and is not a stuttering step is a call
\* of clear_actors.)
C15_TeardownExhaustive ==
    [][(/\ teardown' # "idle"
        /\ UNCHANGED <<sensor_list, vehicle_list, ai_controller_list, pedestrian_list,
                       settings>>)
           => \A a \in TrackedActors : a \in destroyed' \/ a \in refused']_vars

\* ---------------------------------------------------------------------------
\* C16  A malformed row is an error local to its record: whatever the table
\* of node n holds, node n publishes for the tick and is not stopped, the
\* published summary has a record for each well-formed surviving row of the
\* table and none for a malformed row, and no published record has a missing
\* (NaN) bounding-box field.
WellFormed(row) ==
    /\ \A f \in {"name", "xmin", "ymin", "xmax", "ymax"} : Has(row, f)
    /\ row.name # NaNLabel
    /\ \A f \in {"xmin", "ymin", "xmax", "ymax"} : row[f] # NaN

WellFormedSurvivors(rows, H, is_rsu) ==
    {p \in 1..Len(rows) : WellFormed(rows[p]) /\ Survives(rows[p], H, is_rsu)}

BoxIsWhole(d) == d.xmin # NaN /\ d.ymin # NaN /\ d.xmax # NaN /\ d.ymax # NaN

C16_MalformedRowIsLocal ==
    [][/\ \A n \in NodeIds, state \in EntityStates, image \in Images, raw_output \in Tables :
            RunRaises(n, state, image, raw_output) =>
                /\ n \notin stopped'
                /\ PublishedFor(n, now)'
                /\ Len(data_pipe'[n].detections) =
                       Cardinality(WellFormedSurvivors(raw_output, image.shape[1],
                                                       state.is_rsu))
       /\ \A n \in NodeIds :
            Ran(n) =>
                /\ Len(data_pipe'[n].detections) =
                       Cardinality(WellFormedSurvivors(frame'[n].raw_output,
                                                       frame'[n].image.shape[1],
                                                       frame'[n].state.is_rsu))
                /\ \A k \in 1..Len(data_pipe'[n].detections) :
                       BoxIsWhole(data_pipe'[n].detections[k])]_vars

\* ---------------------------------------------------------------------------
\* C17  The output of the reducer is the surviving rows in input order: a turn
\* of node n leaves in its summary one record per surviving row of the table
\* it read, the k-th record carrying the class and the xmin, ymin, xmax, ymax
\* of the k-th surviving row, the id of n as parent id and the current tick as
\* timestep.
SurvivingRows(rows, H, is_rsu) == SelectSeq(rows, LAMBDA row : Survives(row, H, is_rsu))

C17_OutputIsSurvivorsInOrder ==
    [][\A n \in NodeIds :
          Ran(n) =>
              LET rows == SurvivingRows(frame'[n].raw_output, frame'[n].image.shape[1],
                                        frame'[n].state.is_rsu)
                  out  == data_pipe'[n].detections
              IN  /\ Len(out) = Len(rows)
                  /\ \A k \in 1..Len(out) :
                        /\ out[k].type = rows[k].name
                        /\ out[k].xmin = rows[k].xmin
                        /\ out[k].ymin = rows[k].ymin
                        /\ out[k].xmax = rows[k].xmax
                        /\ out[k].ymax = rows[k].ymax
                        /\ out[k].parent_id = n
                        /\ out[k].timestep = now]_vars

\* A roadside unit has reduced at tick 1 the table <<car, dog, person>>: its
\* summary holds the car and then the person.
C17_Witness ==
    \E n \in DOMAIN data_pipe :
        /\ data_pipe[n].is_rsu
        /\ data_pipe[n].timestep = 1
        /\ Len(frame[n].raw_output) = 3
        /\ Len(data_pipe[n].detections) = 2
        /\ data_pipe[n].detections[1].type = "car"
        /\ data_pipe[n].detections[2].type = "person"

\* ---------------------------------------------------------------------------
\* C18  Detection indices within one reducer call.
\* the number a detection id is the str() of
IdOf(d) == CHOOSE i \in 0..9 : Str(i) = d.detection_id

\* C18 as amended: in the output of one reducer call the detection indices are
\* distinct and strictly increasing in output order, and each is the index of
\* its row in the input table; the indices of the surviving rows are exactly
\* the ones present, so every dropped row leaves a gap.
C18_IdsAreRowIndices ==
    \A n \in DOMAIN frame :
        LET rows == frame[n].raw_output
            out  == frame[n].output.detections
        IN  /\ \A k \in 1..Len(out) - 1 : IdOf(out[k]) < IdOf(out[k + 1])
            /\ {IdOf(out[k]) : k \in 1..Len(out)} =
                   {p - 1 : p \in {q \in 1..Len(rows) :
                                     Survives(rows[q], frame[n].image.shape[1],
                                              frame[n].state.is_rsu)}}
            /\ \A k \in 1..Len(out) : out[k].type = rows[IdOf(out[k]) + 1].name

\* C18 as stated: the indices are consecutive in output order, with no gaps,
\* also when some rows were dropped.
C18_AsStated ==
    \A n \in DOMAIN frame :
        LET out == frame[n].output.detections
        IN  \A k \in 1..Len(out) - 1 : IdOf(out[k + 1]) = IdOf(out[k]) + 1

\* A mobile owner with a frame of height 16 has reduced <<car, dog, person>>,
\* the car low in the frame: the only record is the person, with index 2.
C18_Witness ==
    \E n \in DOMAIN frame :
        /\ ~frame[n].state.is_rsu
        /\ Len(frame[n].raw_output) = 3
        /\ Len(frame[n].output.detections) = 1
        /\ frame[n].output.detections[1].detection_id = "2"

\* ---------------------------------------------------------------------------
\* C19  One accounting pass, for each vehicle with a destination: when the
\* rounded x and the rounded y of the vehicle both equal those of the
\* destination the pass sets reached_destination and leaves travelled_frames
\* as it is; a match on one axis only leaves the flag as it is; and when the
\* two axes do not both match, travelled_frames grows by exactly 1 if the
\* flag was not already true and is left as it is otherwise.
MatchX(e) ==
    Round(vehicle_list[e].location.x) = Round(spawn_points[destination_indices[e]].x)

MatchY(e) ==
    Round(vehicle_list[e].location.y) = Round(spawn_points[destination_indices[e]].y)

C19_PassAccounting ==
    LET r == TravelLoop(1, [travelled_frames |-> travelled_frames,
                            reached_destination |-> reached_destination])
    IN  \A e \in DOMAIN destination_indices :
            IF MatchX(e) /\ MatchY(e)
            THEN /\ r.reached_destination[e] = TRUE
                 /\ r.travelled_frames[e] = travelled_frames[e]
            ELSE /\ r.reached_destination[e] = reached_destination[e]
                 /\ r.travelled_frames[e] =
                        IF reached_destination[e] THEN travelled_frames[e]
                        ELSE travelled_frames[e] + 1

\* A vehicle whose position matches its destination on the x axis only has
\* been through a pass: it is counted once and has not arrived.
C19_Witness ==
    \E e \in DOMAIN destination_indices :
        /\ MatchX(e) /\ ~MatchY(e)
        /\ travelled_frames[e] = 1
        /\ ~reached_destination[e]

\* ---------------------------------------------------------------------------
\* C20  The two publishing side effects happen together: in every state, for
\* every node n, the entries of the detection log that n appended are of no
\* later tick than the summary held in map[n], and the entries n appended at
\* the tick of that summary are one contiguous block of the log, equal to the
\* detections of the summary.
BlockOf(n, T) ==
    {i \in 1..Len(yolo_images) :
        yolo_images[i].parent_id = n /\ yolo_images[i].timestep = T}

C20_MapAndLogAgree ==
    /\ \A i \in 1..Len(yolo_images) :
          /\ yolo_images[i].parent_id \in DOMAIN data_pipe
          /\ yolo_images[i].timestep <= data_pipe[yolo_images[i].parent_id].timestep
    /\ \A n \in DOMAIN data_pipe :
          LET block == BlockOf(n, data_pipe[n].timestep)
              out   == data_pipe[n].detections
          IN  IF block = {}
              THEN out = <<>>
              ELSE \E lo \in block :
                      /\ block = lo..(lo + Len(out) - 1)
                      /\ SubSeq(yolo_images, lo, lo + Len(out) - 1) = out

\* Both nodes have published two detections or more at tick 1, after their
\* publishes of tick 0: the log holds the block of the one, then the block of
\* the other.
C20_Witness ==
    /\ now = 1
    /\ \A n \in NodeIds :
          /\ n \in DOMAIN data_pipe
          /\ data_pipe[n].timestep = 1
          /\ Len(data_pipe[n].detections) >= 2
    /\ Len(yolo_images) >= 5

\* ---------------------------------------------------------------------------
\* C21  Order independence within a tick: for any two nodes due at the current
\* tick and any inputs they read, running the turn of the one and then of the
\* other, or the other way round, leaves the same latest-summary map, and a
\* detection log that is the log before followed by the two nodes' blocks in
\* the order they ran; the summary of each node is the one it builds from its
\* own inputs, whether or not the other has published.  Checked at every turn
\* the scheduler takes, for the inputs of that turn and every input of a node
\* due at the same tick.
NodeInputs == [state : EntityStates, image : Images, raw_output : RawOutputs]

\* the two pipes after the turn of node n at time t on the inputs in
Turn(pipes, n, in, t) ==
    LET output == summarize_output(n, in.raw_output, in.image.shape, in.state, t)
    IN  [data_pipe |-> PublishSummary(pipes.data_pipe, n, output),
         yolo_images |-> ExtendLog(pipes.yolo_images, output.detections)]

Due(n) == ~crashed /\ n \notin stopped /\ wake[n] = now

OrdersAgree(n, m, in_n, in_m) ==
    LET pipes == [data_pipe |-> data_pipe, yolo_images |-> yolo_images]
        nm    == Turn(Turn(pipes, n, in_n, now), m, in_m, now)
        mn    == Turn(Turn(pipes, m, in_m, now), n, in_n, now)
        out_n == summarize_output(n, in_n.raw_output, in_n.image.shape, in_n.state, now)
        out_m == summarize_output(m, in_m.raw_output, in_m.image.shape, in_m.state, now)
    IN  /\ nm.data_pipe = mn.data_pipe
        /\ nm.data_pipe[n] = out_n
        /\ nm.data_pipe[m] = out_m
        /\ nm.yolo_images = yolo_images \o out_n.detections \o out_m.detections
        /\ mn.yolo_images = yolo_images \o out_m.detections \o out_n.detections

C21_OrderIndependence ==
    [][\A n \in NodeIds :
          Ran(n) =>
              LET in_n == [state |-> frame'[n].state, image |-> frame'[n].image,
                           raw_output |-> frame'[n].raw_output]
                  after == Turn([data_pipe |-> data_pipe, yolo_images |-> yolo_images],
                                n, in_n, now)
              IN  /\ data_pipe' = after.data_pipe
                  /\ yolo_images' = after.yolo_images
                  /\ \A m \in NodeIds \ {n} :
                        Due(m) => \A in_m \in NodeInputs : OrdersAgree(n, m, in_n, in_m)]_vars

\* Both nodes have published for tick 0 with detections, the second node
\* first: the log starts with the block of n2 and ends with the block of n1.
C21_Witness ==
    /\ now = 0
    /\ \A n \in NodeIds : n \in DOMAIN data_pipe /\ wake[n] = 1
    /\ Len(yolo_images) >= 2
    /\ yolo_images[1].parent_id = "n2"
    /\ yolo_images[Len(yolo_images)].parent_id = "n1"

\* ---------------------------------------------------------------------------
\* C22  The second bound of the suppression test never changes the outcome:
\* for a car row of a mobile owner whose box has ymin <= ymax, and an image of
\* height H, the reducer drops the row if and only if ymin > H / 1.6.
C22_YmaxBoundIsRedundant ==
    \A n \in DOMAIN frame :
        \A p \in 1..Len(frame[n].raw_output) :
            LET row == frame[n].raw_output[p]
            IN  (/\ WellFormed(row)
                 /\ row.name = "car"
                 /\ ~frame[n].state.is_rsu
                 /\ row.ymin <= row.ymax) =>
                    (Dropped(n, p) <=> 16 * row.ymin > 10 * frame[n].image.shape[1])

\* A mobile owner with a frame of height 32 has reduced a car whose box has
\* ymin = 21 and ymax = 22, between the bound 20 and the height: it is dropped.
C22_Witness ==
    \E n \in DOMAIN frame :
        /\ ~frame[n].state.is_rsu
        /\ frame[n].image.shape[1] = 32
        /\ frame[n].raw_output = <<Row("car", 0, 21, 1, 22)>>
        /\ frame[n].output.detections = <<>>

====
